---- MODULE Spec2Model ----
(***************************************************************************)
(* A model of the OpenAI adapter of gemini-cli: the effective-model        *)
(* resolver (core/modelCheck.ts) and the content generator facade          *)
(* (openai/openai-adapter.ts): generateContent, generateContentStream and  *)
(* countTokens, with the converters they call.                             *)
(*                                                                         *)
(* One behaviour is one call of one operation.  Strings of the program are *)
(* TLA+ strings; "\n" is the newline the code joins text parts with.       *)
(***************************************************************************)
EXTENDS Integers, Sequences, FiniteSets, TLC

VARIABLES
  op,                 \* the operation in progress, "idle" before the call
  pc,                 \* where that operation stands
  outcome,            \* what the operation has handed to its caller
  configured,         \* getEffectiveModel: currentConfiguredModel
  timer,              \* getEffectiveModel: the 2 s timer of the probe
  probe,              \* getEffectiveModel: how the probe request ended
  callRequest,        \* the request, until the backend has answered its call
  backendCall,        \* the call made to client.chat.completions.create
  answer,             \* what the backend answered or threw last
  hasSignal,          \* request.config.abortSignal is set
  aborted,            \* that signal has been aborted
  accumulatedContent, \* generateContentStreamInternal: the text buffer
  toolCalls,          \* generateContentStreamInternal: buffered fragments
  chunk,              \* the chunk the loop body is working on
  consumed,           \* number of chunks pulled from the backend stream
  deltas,             \* the non-empty text deltas pulled so far, in order
  emitted,            \* the snapshots yielded so far, in order
  finishSeen,         \* the loop has met a chunk with a finish reason
  pending,            \* how the generator ends once the backend stream closed
  queued,             \* the consumer's request waiting in the generator's queue
  drained,            \* what that request got when the generator ended
  emittedAtAbort      \* Len(emitted) when the signal was aborted

vars == <<op, pc, outcome, configured, timer, probe, callRequest, backendCall,
          answer, hasSignal,
          aborted, accumulatedContent, toolCalls, chunk, consumed, deltas,
          emitted, finishSeen, pending, queued, drained, emittedAtAbort>>

loopVars == <<accumulatedContent, toolCalls, chunk, consumed, deltas, emitted,
              finishSeen, pending>>
streamVars == <<loopVars, queued, drained>>
probeVars == <<configured, timer, probe>>
abortVars == <<hasSignal, aborted, emittedAtAbort>>
callVars == <<callRequest, backendCall, answer>>

NoOutcome == [kind |-> "none"]
Returned(v) == [kind |-> "return", value |-> v]
Thrown(m) == [kind |-> "throw", message |-> m]
NoRequest == [kind |-> "none"]
NoCall == [kind |-> "none"]
NoAnswer == [kind |-> "none"]
NoChunk == [kind |-> "none"]
NoQueued == [kind |-> "none"]

(***************************************************************************)
(* core/modelCheck.ts and config/models.ts                                 *)
(***************************************************************************)
DEFAULT_OPENAI_MODEL == "gpt-4o"
DEFAULT_OPENAI_FLASH_MODEL == "gpt-4o-mini"

\* The models a user may have configured: the primary one, the fallback
\* one, and one that is neither.
ConfiguredModels == {DEFAULT_OPENAI_MODEL, DEFAULT_OPENAI_FLASH_MODEL, "o3"}
ApiKeys == {"", "sk-1"}
\* HTTP statuses of the probe's response: successes, the rate limit, others.
ProbeStatuses == {200, 204, 400, 401, 404, 429, 500, 503}
\* Why fetch may reject without the timer: DNS, connection reset, TLS.
ProbeFailures == {"ENOTFOUND", "ECONNRESET", "EPROTO"}

\* modelCheck.ts:57-64: the decision on a response.  A mutant falls back on
\* every error status.
ProbeDecisionAnyError(status, model) ==
  IF status >= 400 THEN DEFAULT_OPENAI_FLASH_MODEL ELSE model
ProbeDecision(status, model) ==
  IF status = 429 THEN DEFAULT_OPENAI_FLASH_MODEL ELSE model

\* modelCheck.ts:24-53: the call up to `await fetch`.
GetEffectiveModelCall(apiKey, currentConfiguredModel) ==
  /\ op = "idle"
  /\ op' = "getEffectiveModel"
  /\ configured' = currentConfiguredModel
  /\ IF currentConfiguredModel # DEFAULT_OPENAI_MODEL
       THEN /\ pc' = "done"
            /\ outcome' = Returned(currentConfiguredModel)
            /\ timer' = "none"
       ELSE /\ pc' = "fetching"
            /\ outcome' = NoOutcome
            /\ timer' = "armed"
  /\ UNCHANGED <<probe, callVars, streamVars, abortVars>>

\* modelCheck.ts:55-64: fetch resolved with a response of any status.
ProbeResponds(status) ==
  /\ op = "getEffectiveModel" /\ pc = "fetching" /\ timer = "armed"
  /\ probe' = [kind |-> "response", status |-> status]
  /\ timer' = "cleared"
  /\ outcome' = Returned(ProbeDecision(status, configured))
  /\ pc' = "done"
  /\ UNCHANGED <<op, configured, callVars, streamVars, abortVars>>

\* modelCheck.ts:42: the timer fires and aborts the controller.
ProbeTimerFires ==
  /\ op = "getEffectiveModel" /\ pc = "fetching" /\ timer = "armed"
  /\ timer' = "fired"
  /\ UNCHANGED <<op, pc, outcome, configured, probe, callVars, streamVars,
                 abortVars>>

\* modelCheck.ts:65-69: fetch rejected, because the controller was aborted
\* (after the timer fired) or because the transport failed.
ProbeRejects(why) ==
  /\ op = "getEffectiveModel" /\ pc = "fetching"
  /\ IF timer = "fired" THEN why = "AbortError" ELSE why \in ProbeFailures
  /\ probe' = [kind |-> IF timer = "fired" THEN "timeout" ELSE "failure",
               error |-> why]
  /\ timer' = IF timer = "fired" THEN "fired" ELSE "cleared"
  /\ outcome' = Returned(configured)
  /\ pc' = "done"
  /\ UNCHANGED <<op, configured, callVars, streamVars, abortVars>>

GetEffectiveModelNext ==
  \/ \E k \in ApiKeys, m \in ConfiguredModels : GetEffectiveModelCall(k, m)
  \/ \E s \in ProbeStatuses : ProbeResponds(s)
  \/ ProbeTimerFires
  \/ \E w \in ProbeFailures \cup {"AbortError"} : ProbeRejects(w)

(***************************************************************************)
(* openai/openai-adapter.ts: values                                        *)
(*                                                                         *)
(* A Part, a Content, a message or a chunk is a record that holds exactly  *)
(* the fields that are set.  A JSON object (args, response) is a sequence  *)
(* of <<key, value>> pairs in insertion order, keys and values strings.    *)
(***************************************************************************)
Null == "<null>"
NULL == "<undefined>"

Has(rec, field) == field \in DOMAIN rec
\* JavaScript truthiness of an optional string field: set, and neither null
\* nor undefined nor "".
Truthy(rec, field) == Has(rec, field) /\ rec[field] \notin {"", Null, NULL}

\* Array.prototype.join
RECURSIVE Join(_, _)
Join(strs, sep) ==
  IF strs = <<>> THEN ""
  ELSE IF Len(strs) = 1 THEN strs[1]
  ELSE strs[1] \o sep \o Join(Tail(strs), sep)

\* Array.prototype.flatMap(content => content.parts)
RECURSIVE FlatParts(_)
FlatParts(contents) ==
  IF contents = <<>> THEN <<>>
  ELSE contents[1].parts \o FlatParts(Tail(contents))

Quote(str) == "\"" \o str \o "\""
\* JSON.stringify of an object whose values are strings
JSONMember(kv) == Quote(kv[1]) \o ":" \o Quote(kv[2])
JSONStringify(obj) ==
  "{" \o Join([i \in 1..Len(obj) |-> JSONMember(obj[i])], ",") \o "}"

\* The objects that travel as arguments and responses.
JsonObjects == {<<>>, <<<<"q", "x">>>>, <<<<"ok", "1">>>>}
\* An argument string cut short, as a stream delivers it: not JSON.
TruncatedJson == "{\"q\":"
\* JSON.parse on the strings of this model: the inverse of JSON.stringify
\* on JsonObjects, and a SyntaxError on anything else.
JSONParse(str) ==
  IF \E o \in JsonObjects : JSONStringify(o) = str
    THEN [ok |-> TRUE, value |-> CHOOSE o \in JsonObjects : JSONStringify(o) = str]
    ELSE [ok |-> FALSE, message |-> "Unexpected end of JSON input"]

\* `OpenAI API error: ${error instanceof Error ? error.message : String(error)}`
ErrorText(error) == IF error.isError THEN error.message ELSE error.value
\* A mutant throws the prefix alone.
WrapErrorNoMessage(error) == Thrown("OpenAI API error")
WrapError(error) == Thrown("OpenAI API error: " \o ErrorText(error))

(***************************************************************************)
(* openai/openai-adapter.ts: the message converter                         *)
(***************************************************************************)
\* adapter:352-360.  A mutant takes a role it does not know for the
\* assistant's.
MapRoleUnknownAssistant(role) ==
  IF role = "model" THEN "assistant"
  ELSE IF role \in {"user", "system", "assistant"} THEN role
  ELSE "assistant"
MapRole(role) ==
  IF role = "model" THEN "assistant"
  ELSE IF role \in {"user", "system", "assistant"} THEN role
  ELSE IF role = "assistant" THEN "assistant" ELSE "user"

HasText(part) == Truthy(part, "text")
HasFunctionCall(part) == Has(part, "functionCall")
HasFunctionResponse(part) == Has(part, "functionResponse")

\* adapter:362
IsToolTurn(content) ==
  \E i \in 1..Len(content.parts) :
    HasFunctionCall(content.parts[i]) \/ HasFunctionResponse(content.parts[i])

\* The number of identifiers Math.random is asked for on one turn.
NumIds(content) ==
  IF IsToolTurn(content)
    THEN Len(SelectSeq(content.parts, HasFunctionCall))
         + Len(SelectSeq(content.parts, HasFunctionResponse))
    ELSE 0

RECURSIVE NumIdsAll(_)
NumIdsAll(contents) ==
  IF contents = <<>> THEN 0 ELSE NumIds(contents[1]) + NumIdsAll(Tail(contents))

\* adapter:394-399
PartBody(part) ==
  IF HasText(part) THEN part.text
  ELSE IF Has(part, "inlineData") THEN "[" \o part.inlineData.mimeType \o " data]"
  ELSE ""
NonEmpty(str) == str # ""

\* adapter:362-404: the messages of one turn; ids are the identifiers that
\* Math.random yields, in the order the code draws them.
ContentMessages(content, ids) ==
  IF IsToolTurn(content)
    THEN
      LET textParts == SelectSeq(content.parts, HasText)
          functionCalls == SelectSeq(content.parts, HasFunctionCall)
          functionResponses == SelectSeq(content.parts, HasFunctionResponse)
          body == Join([i \in 1..Len(textParts) |-> textParts[i].text], "\n")
          k == Len(functionCalls)
          call == [role |-> "assistant",
                   content |-> IF body # "" THEN body ELSE Null,
                   tool_calls |->
                     [i \in 1..k |->
                       [id |-> ids[i], type |-> "function",
                        function |->
                          [name |-> functionCalls[i].functionCall.name,
                           arguments |->
                             JSONStringify(functionCalls[i].functionCall.args)]]]]
          results == [j \in 1..Len(functionResponses) |->
                       [role |-> "tool", tool_call_id |-> ids[k + j],
                        content |->
                          JSONStringify(functionResponses[j].functionResponse.response)]]
      IN  (IF k > 0 THEN <<call>> ELSE <<>>) \o results
    ELSE
      <<[role |-> MapRole(content.role),
         content |->
           Join(SelectSeq([i \in 1..Len(content.parts) |-> PartBody(content.parts[i])],
                          NonEmpty), "\n")]>>

\* adapter:347-408
RECURSIVE ConvertContentsToMessages(_, _)
ConvertContentsToMessages(contents, ids) ==
  IF contents = <<>> THEN <<>>
  ELSE LET n == NumIds(contents[1])
       IN  ContentMessages(contents[1], SubSeq(ids, 1, n))
             \o ConvertContentsToMessages(Tail(contents), SubSeq(ids, n + 1, Len(ids)))

\* adapter:225: part => part.text, undefined and "" both dropped by filter(Boolean)
SystemPartText(part) == IF Has(part, "text") THEN part.text ELSE ""

\* adapter:219-232 and 264-277: the system instruction of a request, which
\* holds config.systemInstruction when one is given, as a string or as a
\* Content.  A mutant appends the system message instead of prepending it.
SystemContent(request) ==
  IF Has(request.config.systemInstruction, "parts")
    THEN LET parts == request.config.systemInstruction.parts
         IN  Join(SelectSeq([i \in 1..Len(parts) |-> SystemPartText(parts[i])],
                            NonEmpty), "\n")
    ELSE request.config.systemInstruction.string
WithSystemInstructionLast(request, messages) ==
  IF Has(request.config, "systemInstruction")
       /\ (Has(request.config.systemInstruction, "parts")
             \/ request.config.systemInstruction.string # "")
       /\ SystemContent(request) # ""
    THEN messages \o <<[role |-> "system", content |-> SystemContent(request)]>>
    ELSE messages
WithSystemInstruction(request, messages) ==
  IF Has(request.config, "systemInstruction")
       /\ (Has(request.config.systemInstruction, "parts")
             \/ request.config.systemInstruction.string # "")
       /\ SystemContent(request) # ""
    THEN <<[role |-> "system", content |-> SystemContent(request)]>> \o messages
    ELSE messages

(***************************************************************************)
(* openai/openai-adapter.ts: the response synthesizer                      *)
(***************************************************************************)
\* adapter:466-477 and, the same loop, 505-516: one function-call part per
\* tool call of type "function"; the first argument string JSON.parse
\* rejects throws out of the loop.
RECURSIVE FunctionCallParts(_)
FunctionCallParts(calls) ==
  IF calls = <<>> THEN [ok |-> TRUE, parts |-> <<>>]
  ELSE IF ~(Has(calls[1], "type") /\ calls[1].type = "function")
    THEN FunctionCallParts(Tail(calls))
  ELSE
    LET arguments == calls[1].function.arguments
        parsed == JSONParse(IF arguments # "" THEN arguments ELSE "{}")
        rest == FunctionCallParts(Tail(calls))
    IN  IF ~parsed.ok THEN [ok |-> FALSE, message |-> parsed.message]
        ELSE IF ~rest.ok THEN rest
        ELSE [ok |-> TRUE,
              parts |-> <<[functionCall |-> [name |-> calls[1].function.name,
                                             args |-> parsed.value]]>>
                          \o rest.parts]

\* adapter:460-464 and 499-503
TextParts(content) ==
  IF content \notin {"", Null, NULL} THEN <<[text |-> content]>> ELSE <<>>

\* adapter:490-494
UsageMetadata(response) ==
  IF Has(response, "usage")
    THEN [promptTokenCount |-> response.usage.prompt_tokens,
          candidatesTokenCount |-> response.usage.completion_tokens,
          totalTokenCount |-> response.usage.total_tokens]
    ELSE [promptTokenCount |-> NULL, candidatesTokenCount |-> NULL,
          totalTokenCount |-> NULL]

\* adapter:454-496.  The result is [ok |-> TRUE, value |-> the response] or,
\* when JSON.parse throws, [ok |-> FALSE, message |-> the SyntaxError's].
ConvertOpenAIResponseToGenAI(response) ==
  IF response.choices = <<>> THEN [ok |-> TRUE, value |-> [candidates |-> <<>>]]
  ELSE
    LET choice == response.choices[1]
        calls == FunctionCallParts(IF Has(choice.message, "tool_calls")
                                     THEN choice.message.tool_calls ELSE <<>>)
    IN  IF ~calls.ok THEN calls
        ELSE [ok |-> TRUE,
              value |->
                [candidates |->
                   <<[content |-> [role |-> "model",
                                   parts |-> TextParts(choice.message.content)
                                               \o calls.parts],
                      finishReason |-> IF Truthy(choice, "finish_reason")
                                         THEN choice.finish_reason ELSE NULL,
                      index |-> choice.index]>>,
                 usageMetadata |-> UsageMetadata(response)]]

\* adapter:498-530.  toolCalls is <<>> when the argument is left out.
CreateStreamResponse(content, isComplete, calls) ==
  LET fc == FunctionCallParts(calls)
  IN  IF ~fc.ok THEN fc
      ELSE [ok |-> TRUE,
            value |->
              [candidates |->
                 <<[content |-> [role |-> "model",
                                 parts |-> TextParts(content) \o fc.parts],
                    finishReason |-> IF isComplete THEN "stop" ELSE NULL,
                    index |-> 0]>>]]

\* adapter:321-329
CountTokensText(request) ==
  LET parts == FlatParts(request.contents)
  IN  Join([i \in 1..Len(parts) |->
              IF HasText(parts[i]) THEN parts[i].text ELSE ""], " ")
\* Math.ceil(n / 4).  A mutant rounds down.
FloorQuarter(n) == n \div 4
CeilQuarter(n) == IF n % 4 = 0 THEN n \div 4 ELSE n \div 4 + 1
EstimatedTokens(request) == CeilQuarter(Len(CountTokensText(request)))

(***************************************************************************)
(* The inputs of the model                                                 *)
(***************************************************************************)
MaxTurns == 2    \* content turns of a request
MaxChunks == 3   \* chunks a backend stream delivers

LookupCall == [functionCall |-> [name |-> "lookup", args |-> <<<<"q", "x">>>>]]
ListCall == [functionCall |-> [name |-> "list", args |-> <<>>]]
LookupResponse ==
  [functionResponse |-> [name |-> "lookup", response |-> <<<<"ok", "1">>>>]]
ListResponse == [functionResponse |-> [name |-> "list", response |-> <<>>]]
Image == [inlineData |-> [mimeType |-> "image/png", data |-> "AAAA"]]

SampleContents ==
  { [role |-> "user", parts |-> <<[text |-> "hi"]>>],
    [role |-> "model", parts |-> <<[text |-> "abcd"], LookupCall>>],
    [role |-> "user", parts |-> <<LookupResponse, ListResponse>>],
    [role |-> "system", parts |-> <<[text |-> "terse"], [text |-> ""]>>],
    [role |-> "user", parts |-> <<Image, [text |-> "abcde"]>>],
    [role |-> "function", parts |-> <<[text |-> "x"]>>],
    [role |-> "model", parts |-> <<LookupCall, ListCall, LookupResponse>>],
    [role |-> "assistant", parts |-> <<>>] }

ContentSeqs == UNION {[1..n -> SampleContents] : n \in 0..MaxTurns}

\* config.systemInstruction: a string, or a Content.
SystemInstructions ==
  { [string |-> "be brief"],
    [string |-> ""],
    [role |-> "system", parts |-> <<[text |-> "one"], [text |-> "two"]>>],
    [role |-> "system", parts |-> <<Image>>],
    [role |-> "system", parts |-> <<[text |-> ""]>>] }

\* config: no field, a system instruction, an abort signal, or both.
Configs ==
  {<<>>, [abortSignal |-> TRUE],
   [systemInstruction |-> [string |-> "be brief"], abortSignal |-> TRUE]}
    \cup {[systemInstruction |-> si] : si \in SystemInstructions}

Requests ==
  {[model |-> DEFAULT_OPENAI_MODEL, contents |-> cs, config |-> cfg] :
     cs \in ContentSeqs, cfg \in Configs}

\* What Math.random().toString(36).substr(2, 9) may yield.
CallIds == {"call_k3j9x0q2m", "call_p7w1z8r4t"}

\* What the backend client may throw: Errors, and a value that is no Error.
BackendErrors ==
  { [isError |-> TRUE, message |-> "429 Rate limit exceeded"],
    [isError |-> TRUE, message |-> "Connection error."],
    [isError |-> FALSE, value |-> "socket hang up"] }
AbortError == [isError |-> TRUE, message |-> "Request was aborted."]

ToolCall(name, arguments) ==
  [id |-> "call_1", type |-> "function",
   function |-> [name |-> name, arguments |-> arguments]]
GoodCall == ToolCall("lookup", "{\"q\":\"x\"}")
EmptyArgsCall == ToolCall("list", "")
BadCall == ToolCall("lookup", TruncatedJson)
CustomCall == [id |-> "call_2", type |-> "custom",
               custom |-> [name |-> "shell", input |-> "ls"]]
\* A later fragment of a streamed tool call: neither type nor name.
Continuation == [index |-> 0, function |-> [arguments |-> "\"x\"}"]]

Choice(index, content, calls, finish) ==
  [index |-> index, finish_reason |-> finish,
   message |-> IF calls = <<>> THEN [role |-> "assistant", content |-> content]
               ELSE [role |-> "assistant", content |-> content,
                     tool_calls |-> calls]]
Usage == [prompt_tokens |-> 7, completion_tokens |-> 2, total_tokens |-> 9]

\* Completions of the non-streaming call.
Completions ==
  { [choices |-> <<>>],
    [choices |-> <<Choice(0, "hi", <<>>, "stop")>>, usage |-> Usage],
    [choices |-> <<Choice(0, "abcd", <<>>, "length")>>],
    [choices |-> <<Choice(0, Null, <<GoodCall>>, "tool_calls")>>],
    [choices |-> <<Choice(0, "hi", <<GoodCall, BadCall>>, "tool_calls")>>],
    [choices |-> <<Choice(0, "hi", <<GoodCall, CustomCall, EmptyArgsCall>>,
                          "tool_calls")>>],
    [choices |-> <<Choice(0, "a", <<>>, "stop"), Choice(1, "b", <<>>, "stop")>>],
    [choices |-> <<Choice(1, "b", <<>>, "stop"), Choice(0, "a", <<>>, "stop")>>],
    [choices |-> <<Choice(0, "", <<>>, Null)>>] }

Chunk(content, calls, finish) ==
  [choices |-> <<[index |-> 0, finish_reason |-> finish,
                  delta |-> IF calls = <<>> THEN [content |-> content]
                            ELSE [content |-> content, tool_calls |-> calls]]>>]

\* Chunks of the streaming call.
Chunks ==
  { Chunk("a", <<>>, Null),
    Chunk("b", <<>>, Null),
    Chunk("", <<>>, Null),
    Chunk(Null, <<GoodCall>>, Null),
    Chunk(Null, <<BadCall>>, Null),
    Chunk(Null, <<Continuation>>, Null),
    Chunk(Null, <<EmptyArgsCall, GoodCall>>, Null),
    Chunk("a", <<GoodCall>>, Null),
    Chunk(Null, <<>>, "stop"),
    Chunk(Null, <<>>, "length"),
    Chunk("b", <<>>, "stop"),
    Chunk(Null, <<GoodCall>>, "tool_calls"),
    [choices |-> <<>>, usage |-> Usage] }

(***************************************************************************)
(* openai/openai-adapter.ts: generateContent                               *)
(***************************************************************************)
\* adapter:236-245 and 281-291: the arguments of chat.completions.create.
\* The call is made with a body and no request options.
CreateCall(request, messages, stream) ==
  [kind |-> "create", model |-> request.model, messages |-> messages,
   stream |-> stream, options |-> <<>>]

\* The client library ends a call whose options carry a signal that has
\* been aborted.
BackendHonoursAbort ==
  /\ backendCall.kind # "none"
  /\ Has(backendCall.options, "signal")
  /\ aborted

\* adapter:214-245: generateContent up to `await create`.
GenerateContentCall(request, ids) ==
  /\ op = "idle"
  /\ op' = "generateContent"
  /\ pc' = "awaiting"
  /\ callRequest' = request
  /\ hasSignal' = Has(request.config, "abortSignal")
  /\ backendCall' =
       CreateCall(request,
                  WithSystemInstruction(
                    request, ConvertContentsToMessages(request.contents, ids)),
                  FALSE)
  /\ UNCHANGED <<outcome, answer, aborted, emittedAtAbort, probeVars, streamVars>>

\* adapter:247: the completion arrives and is converted; adapter:248-250
\* when the conversion throws.
BackendCompletes(completion) ==
  /\ op = "generateContent" /\ pc = "awaiting"
  /\ ~BackendHonoursAbort
  /\ answer' = [kind |-> "completion", completion |-> completion]
  /\ LET res == ConvertOpenAIResponseToGenAI(completion)
     IN  outcome' = IF res.ok THEN Returned(res.value)
                    ELSE WrapError([isError |-> TRUE, message |-> res.message])
  /\ pc' = "done"
  /\ callRequest' = NoRequest
  /\ backendCall' = NoCall
  /\ UNCHANGED <<op, abortVars, probeVars, streamVars>>

\* adapter:248-250: create rejects.
BackendFails(error) ==
  /\ op = "generateContent" /\ pc = "awaiting"
  /\ IF BackendHonoursAbort THEN error = AbortError ELSE error \in BackendErrors
  /\ answer' = [kind |-> "error", error |-> error]
  /\ outcome' = WrapError(error)
  /\ pc' = "done"
  /\ callRequest' = NoRequest
  /\ backendCall' = NoCall
  /\ UNCHANGED <<op, abortVars, probeVars, streamVars>>

\* The caller aborts the signal it put on the request.
Abort ==
  /\ op \in {"generateContent", "generateContentStream"}
  /\ pc # "done"
  /\ hasSignal /\ ~aborted
  /\ aborted' = TRUE
  /\ emittedAtAbort' = Len(emitted)
  /\ UNCHANGED <<op, pc, outcome, hasSignal, callVars, probeVars, streamVars>>

\* adapter:318-330
CountTokens(request) ==
  /\ op = "idle"
  /\ op' = "countTokens"
  /\ pc' = "done"
  /\ callRequest' = request
  /\ outcome' = Returned([totalTokens |-> EstimatedTokens(request)])
  /\ UNCHANGED <<backendCall, answer, abortVars, probeVars, streamVars>>

(***************************************************************************)
(* openai/openai-adapter.ts: generateContentStream                         *)
(*                                                                         *)
(* generateContentStream hands out the generator with none of its body    *)
(* run: pc is "suspendedStart" until the consumer asks for the first       *)
(* snapshot.  From then on the generator runs when its consumer asks for   *)
(* the next snapshot, up to the next await, yield, return or throw.  pc is *)
(* "creating" while create is awaited, "loop" while the next chunk is      *)
(* awaited, "yieldedText" and "yieldedFinal" while the generator is        *)
(* suspended at adapter:301 and 309, and "closing" while the return() of   *)
(* the backend stream is awaited, which `for await` calls when its body    *)
(* leaves the loop by break or throw.                                      *)
(***************************************************************************)
ChunkDelta(c) == IF c.choices = <<>> THEN <<>> ELSE c.choices[1].delta
DeltaContent(c) ==
  IF Truthy(ChunkDelta(c), "content") THEN ChunkDelta(c).content ELSE ""
DeltaToolCalls(c) ==
  IF Has(ChunkDelta(c), "tool_calls") THEN ChunkDelta(c).tool_calls ELSE <<>>
ChunkFinished(c) == c.choices # <<>> /\ Truthy(c.choices[1], "finish_reason")

\* adapter:300: accumulatedContent += delta.content.  A mutant assigns the
\* delta instead of appending it.
AccumulateAssign(content, delta) == delta
Accumulate(content, delta) == content \o delta

\* adapter:253-257: generateContentStream returns the generator; nothing of
\* generateContentStreamInternal has run.
GenerateContentStreamCall(request) ==
  /\ op = "idle"
  /\ op' = "generateContentStream"
  /\ pc' = "suspendedStart"
  /\ callRequest' = request
  /\ hasSignal' = Has(request.config, "abortSignal")
  /\ UNCHANGED <<outcome, backendCall, answer, aborted, emittedAtAbort,
                 probeVars, streamVars>>

\* What the caller may turn the request into while it holds the generator:
\* one more content turn, another model, another config with the same
\* abort signal or lack of one.
RequestMutations(request) ==
  ({[request EXCEPT !.contents = Append(@, content)] :
      content \in IF Len(request.contents) < MaxTurns
                    THEN SampleContents ELSE {}}
   \cup {[request EXCEPT !.model = model] :
           model \in {DEFAULT_OPENAI_MODEL, DEFAULT_OPENAI_FLASH_MODEL}}
   \cup {[request EXCEPT !.config = config] :
           config \in {c \in Configs :
                         Has(c, "abortSignal")
                           = Has(request.config, "abortSignal")}})
    \ {request}

\* adapter:254, 259: the generator holds a reference to the request, which
\* its caller changes before the first snapshot is asked for.
RequestChanges(request) ==
  /\ op = "generateContentStream" /\ pc = "suspendedStart"
  /\ request \in RequestMutations(callRequest)
  /\ callRequest' = request
  /\ UNCHANGED <<op, pc, outcome, backendCall, answer, abortVars, probeVars,
                 streamVars>>

\* adapter:259-291: the consumer asks for the first snapshot; the body runs
\* on the request as it is now, up to `await create`.
StreamStarts(ids) ==
  /\ op = "generateContentStream" /\ pc = "suspendedStart"
  /\ pc' = "creating"
  /\ backendCall' =
       CreateCall(callRequest,
                  WithSystemInstruction(
                    callRequest,
                    ConvertContentsToMessages(callRequest.contents, ids)),
                  TRUE)
  /\ UNCHANGED <<op, outcome, callRequest, answer, abortVars, probeVars,
                 streamVars>>

\* How a return(value) or throw(error) of the consumer leaves the loop when
\* it reaches the generator suspended at a yield: the return goes through,
\* the error is caught at adapter:313-315 and wrapped.
Delivered(q) ==
  IF q.kind = "return" THEN Returned(q.value) ELSE WrapError(q.error)

\* What a request gets from a generator that runs none of its body for it,
\* not started or ended: return(value) gets the value, throw(error) the
\* error as it is, unwrapped.
Drained(q) ==
  IF q.kind = "return" THEN Returned(q.value)
  ELSE IF q.kind = "throw" THEN Thrown(ErrorText(q.error))
  ELSE NoOutcome

\* adapter:259-316: the consumer calls return(value) or throw(error) on the
\* generator.  Not started, the generator ends with none of its body run.
\* Suspended at a yield of adapter:301 or 309, it leaves the loop there and
\* `for await` calls return() on the backend stream and awaits it.  While
\* the generator runs for an earlier request the request waits in its
\* queue; the consumer has at most one request waiting.  Ended, the
\* generator answers at once.
GeneratorRequest(q) ==
  /\ op = "generateContentStream"
  /\ \/ /\ pc = "suspendedStart"
        /\ pc' = "done"
        /\ outcome' = Drained(q)
        /\ callRequest' = NoRequest
        /\ UNCHANGED <<backendCall, answer, streamVars>>
     \/ /\ pc \in {"yieldedText", "yieldedFinal"}
        /\ pc' = "closing"
        /\ pending' = Delivered(q)
        /\ chunk' = NoChunk
        /\ UNCHANGED <<outcome, callVars, accumulatedContent, toolCalls,
                       consumed, deltas, emitted, finishSeen, queued, drained>>
     \/ /\ pc \in {"creating", "loop", "closing"}
        /\ queued = NoQueued
        /\ queued' = q
        /\ UNCHANGED <<pc, outcome, callVars, loopVars, drained>>
     \/ /\ pc = "done"
        /\ queued = NoQueued /\ drained = NoOutcome
        /\ drained' = Drained(q)
        /\ UNCHANGED <<pc, outcome, callVars, loopVars, queued>>
  /\ UNCHANGED <<op, abortVars, probeVars>>

\* AsyncGenerator.prototype.return(value) on the generator of adapter:259.
StreamGivenUp(value) ==
  GeneratorRequest([kind |-> "return", value |-> value])

\* AsyncGenerator.prototype.throw(error) on the generator of adapter:259.
StreamThrownInto(error) ==
  GeneratorRequest([kind |-> "throw", error |-> error])

\* adapter:301, 309: the generator yields.  It is suspended at `position`
\* with chunk `held` in hand, unless a request waits in its queue: that
\* request reaches the yield at once.
Yielded(position, held) ==
  /\ pc' = IF queued = NoQueued THEN position ELSE "closing"
  /\ chunk' = IF queued = NoQueued THEN held ELSE NoChunk
  /\ pending' = IF queued = NoQueued THEN pending ELSE Delivered(queued)
  /\ queued' = NoQueued

\* The generator ends: the request waiting in its queue is answered.
Ended ==
  /\ drained' = Drained(queued)
  /\ queued' = NoQueued

\* adapter:281-294: create resolves with the stream.
StreamOpens ==
  /\ op = "generateContentStream" /\ pc = "creating"
  /\ ~BackendHonoursAbort
  /\ answer' = [kind |-> "stream"]
  /\ callRequest' = NoRequest
  /\ backendCall' = [kind |-> "stream", options |-> backendCall.options]
  /\ pc' = "loop"
  /\ accumulatedContent' = ""
  /\ toolCalls' = <<>>
  /\ UNCHANGED <<op, outcome, abortVars, probeVars, chunk, consumed, deltas,
                 emitted, finishSeen, pending, queued, drained>>

\* adapter:304-311 for chunk c, and what follows: the next iteration, the
\* final snapshot, or the throw of JSON.parse out of createStreamResponse,
\* on which `for await` calls return() on the backend stream and awaits it
\* before the error reaches the catch of adapter:313.
BodyAfterText(c) ==
  LET buffered == toolCalls \o DeltaToolCalls(c)
      final == CreateStreamResponse(accumulatedContent, TRUE, buffered)
  IN  /\ toolCalls' = buffered
      /\ finishSeen' = ChunkFinished(c)
      /\ UNCHANGED <<outcome, drained>>
      /\ IF ~ChunkFinished(c)
           THEN /\ pc' = "loop"
                /\ chunk' = NoChunk
                /\ UNCHANGED <<emitted, pending, queued>>
           ELSE IF final.ok
             THEN /\ emitted' = Append(emitted, final.value)
                  /\ Yielded("yieldedFinal", NoChunk)
             ELSE /\ pc' = "closing"
                  /\ chunk' = NoChunk
                  /\ pending' = WrapError([isError |-> TRUE,
                                           message |-> final.message])
                  /\ UNCHANGED <<emitted, queued>>

\* adapter:296-311: the stream delivers a chunk.
StreamChunk(c) ==
  /\ op = "generateContentStream" /\ pc = "loop"
  /\ consumed < MaxChunks
  /\ ~BackendHonoursAbort
  /\ consumed' = consumed + 1
  /\ IF DeltaContent(c) # ""
       THEN /\ accumulatedContent' = Accumulate(accumulatedContent, DeltaContent(c))
            /\ deltas' = Append(deltas, DeltaContent(c))
            /\ emitted' =
                 Append(emitted,
                        CreateStreamResponse(accumulatedContent', FALSE, <<>>).value)
            /\ Yielded("yieldedText", c)
            /\ UNCHANGED <<toolCalls, outcome, finishSeen, drained>>
       ELSE /\ BodyAfterText(c)
            /\ UNCHANGED <<accumulatedContent, deltas>>
  /\ UNCHANGED <<op, callVars, abortVars, probeVars>>

\* The consumer asks for the next snapshot while the generator is suspended
\* at a yield: adapter:304-311 after the yield of line 301, and the break
\* of line 310 after the yield of line 309, on which `for await` calls
\* return() on the backend stream and awaits it.
StreamResume ==
  /\ op = "generateContentStream"
  /\ \/ /\ pc = "yieldedText"
        /\ BodyAfterText(chunk)
        /\ UNCHANGED <<accumulatedContent, deltas, consumed>>
     \/ /\ pc = "yieldedFinal"
        /\ pc' = "closing"
        /\ pending' = Returned(NULL)
        /\ UNCHANGED <<outcome, accumulatedContent, toolCalls, chunk, consumed,
                       deltas, emitted, finishSeen, queued, drained>>
  /\ UNCHANGED <<op, callVars, abortVars, probeVars>>

\* A loop that flushes what it has buffered when the stream ends with no
\* finish reason: a final snapshot is yielded before the generator ends.
StreamEndsFlush ==
  /\ op = "generateContentStream" /\ pc = "loop"
  /\ ~BackendHonoursAbort
  /\ pc' = "done"
  /\ outcome' = Returned(NULL)
  /\ LET final == CreateStreamResponse(accumulatedContent, TRUE, toolCalls)
     IN  emitted' = IF final.ok THEN Append(emitted, final.value) ELSE emitted
  /\ Ended
  /\ UNCHANGED <<op, callVars, abortVars, probeVars, accumulatedContent,
                 toolCalls, chunk, consumed, deltas, finishSeen, pending>>

\* adapter:296, 312: the stream ends; the loop and the generator end.
StreamEnds ==
  /\ op = "generateContentStream" /\ pc = "loop"
  /\ ~BackendHonoursAbort
  /\ pc' = "done"
  /\ outcome' = Returned(NULL)
  /\ Ended
  /\ UNCHANGED <<op, callVars, abortVars, probeVars, loopVars>>

\* adapter:296, 310-312: return() of the backend stream resolves; the
\* generator ends as the loop was left: it returns after the break or the
\* consumer's return(value), and it throws what the catch of
\* adapter:313-315 makes of the error that left the body.
StreamCloses ==
  /\ op = "generateContentStream" /\ pc = "closing"
  /\ pc' = "done"
  /\ outcome' = pending
  /\ Ended
  /\ UNCHANGED <<op, callVars, abortVars, probeVars, loopVars>>

\* adapter:296, 313-315: return() of the backend stream rejects.  After the
\* break or the consumer's return(value) the rejection is thrown inside the
\* try and wrapped; after a throw out of the body `for await` drops it and
\* the error of the body goes on.
StreamCloseFails(error) ==
  /\ op = "generateContentStream" /\ pc = "closing"
  /\ IF BackendHonoursAbort THEN error = AbortError ELSE error \in BackendErrors
  /\ answer' = [kind |-> "error", error |-> error]
  /\ callRequest' = NoRequest
  /\ backendCall' = NoCall
  /\ pc' = "done"
  /\ outcome' = IF pending.kind = "throw" THEN pending ELSE WrapError(error)
  /\ Ended
  /\ UNCHANGED <<op, abortVars, probeVars, loopVars>>

\* adapter:313-315: create rejects, or the stream throws between chunks.
StreamFails(error) ==
  /\ op = "generateContentStream" /\ pc \in {"creating", "loop"}
  /\ IF BackendHonoursAbort THEN error = AbortError ELSE error \in BackendErrors
  /\ answer' = [kind |-> "error", error |-> error]
  /\ callRequest' = NoRequest
  /\ backendCall' = NoCall
  /\ outcome' = WrapError(error)
  /\ pc' = "done"
  /\ Ended
  /\ UNCHANGED <<op, abortVars, probeVars, loopVars>>

\* What the consumer may pass to return() of the generator.
GivenValues == {NULL, "x"}

\* What the consumer may pass to throw() of the generator.
ConsumerErrors == {[isError |-> TRUE, message |-> "boom"]}

IdSeqs(request) == [1..NumIdsAll(request.contents) -> CallIds]

GenerateContentNext ==
  \/ op = "idle" /\ \E r \in Requests : \E ids \in IdSeqs(r) :
                      GenerateContentCall(r, ids)
  \/ \E c \in Completions : BackendCompletes(c)
  \/ \E e \in BackendErrors \cup {AbortError} : BackendFails(e)
  \/ op = "idle" /\ \E r \in Requests : CountTokens(r)

GenerateContentStreamNext ==
  \/ op = "idle" /\ \E r \in Requests : GenerateContentStreamCall(r)
  \/ pc = "suspendedStart" /\ \E r \in RequestMutations(callRequest) :
                                 RequestChanges(r)
  \/ pc = "suspendedStart" /\ \E ids \in IdSeqs(callRequest) :
                                 StreamStarts(ids)
  \/ \E v \in GivenValues : StreamGivenUp(v)
  \/ \E e \in ConsumerErrors : StreamThrownInto(e)
  \/ StreamOpens
  \/ \E c \in Chunks : StreamChunk(c)
  \/ StreamResume
  \/ StreamEnds
  \/ StreamCloses
  \/ \E e \in BackendErrors \cup {AbortError} : StreamCloseFails(e)
  \/ \E e \in BackendErrors \cup {AbortError} : StreamFails(e)
  \/ Abort

Init ==
  /\ op = "idle"
  /\ pc = "idle"
  /\ outcome = NoOutcome
  /\ configured = ""
  /\ timer = "none"
  /\ probe = [kind |-> "none"]
  /\ callRequest = NoRequest
  /\ backendCall = NoCall
  /\ answer = NoAnswer
  /\ hasSignal = FALSE
  /\ aborted = FALSE
  /\ accumulatedContent = ""
  /\ toolCalls = <<>>
  /\ chunk = NoChunk
  /\ consumed = 0
  /\ deltas = <<>>
  /\ emitted = <<>>
  /\ finishSeen = FALSE
  /\ pending = NoOutcome
  /\ queued = NoQueued
  /\ drained = NoOutcome
  /\ emittedAtAbort = 0

Next ==
  \/ GetEffectiveModelNext
  \/ GenerateContentNext
  \/ GenerateContentStreamNext

Spec == Init /\ [][Next]_vars

\* C1: getEffectiveModel never throws, and it returns the fallback model
\* exactly when the configured model is the primary one and the probe
\* completed with status 429; in every other case (another model, another
\* status, a timeout, a transport failure) it returns the configured model.
C1_DecisionTable ==
  (op = "getEffectiveModel" /\ pc = "done") =>
    /\ outcome.kind = "return"
    /\ LET fallback == /\ configured = DEFAULT_OPENAI_MODEL
                       /\ probe.kind = "response"
                       /\ probe.status = 429
       IN  /\ fallback => outcome.value = DEFAULT_OPENAI_FLASH_MODEL
           /\ ~fallback => outcome.value = configured

\* The primary model was probed and the probe was answered 429.
C1_Witness ==
  /\ op = "getEffectiveModel" /\ pc = "done"
  /\ configured = DEFAULT_OPENAI_MODEL
  /\ probe.kind = "response" /\ probe.status = 429
  /\ outcome = Returned(DEFAULT_OPENAI_FLASH_MODEL)

(***************************************************************************)
(* generateContentStream: the snapshots                                    *)
(***************************************************************************)
Streaming == op = "generateContentStream"
Candidate(response) == response.candidates[1]
IsFinal(response) == Candidate(response).finishReason # NULL
IsPartial(response) == Candidate(response).finishReason = NULL
\* The text a snapshot shows: that of its text part, "" without one.
SnapshotText(response) ==
  LET texts == SelectSeq(Candidate(response).content.parts,
                         LAMBDA part : Has(part, "text"))
  IN  IF texts = <<>> THEN "" ELSE texts[1].text
\* The strings that text deltas can add up to.
DeltaSums ==
  {Join(ds, "") : ds \in UNION {[1..n -> {"a", "b"}] : n \in 0..MaxChunks}}
IsPrefix(short, long) == \E rest \in DeltaSums : short \o rest = long

\* C2: every chunk with a non-empty text delta causes exactly one snapshot
\* with finishReason unset, whose only part is the text of all the deltas
\* received so far, in order; so the text of a snapshot extends the text of
\* every earlier snapshot of the stream.
C2_TextSnapshots ==
  Streaming =>
    LET partial == SelectSeq(emitted, IsPartial)
    IN  /\ Len(partial) = Len(deltas)
        /\ \A k \in 1..Len(partial) :
             /\ Candidate(partial[k]).content.parts
                  = <<[text |-> Join(SubSeq(deltas, 1, k), "")]>>
             /\ Candidate(partial[k]).finishReason = NULL
        /\ \A i \in 1..Len(emitted) : \A j \in i..Len(emitted) :
             IsPrefix(SnapshotText(emitted[i]), SnapshotText(emitted[j]))

\* Two different deltas have arrived and the second snapshot shows both.
C2_Witness ==
  /\ Streaming
  /\ deltas = <<"a", "b">>
  /\ Len(emitted) >= 2
  /\ SnapshotText(emitted[2]) = "ab"

\* C3: on the first chunk with a finish reason the stream yields one final
\* snapshot, with finishReason "stop", index 0 and the accumulated text, and
\* it is the last snapshot; no other snapshot has finishReason set.
C3_FinalSnapshot ==
  Streaming =>
    LET finals == SelectSeq(emitted, IsFinal)
    IN  /\ Len(finals) <= 1
        /\ finishSeen =>
             /\ Len(finals) = 1
             /\ IsFinal(emitted[Len(emitted)])
             /\ Candidate(emitted[Len(emitted)]).finishReason = "stop"
             /\ Candidate(emitted[Len(emitted)]).index = 0
             /\ SnapshotText(emitted[Len(emitted)]) = accumulatedContent
        /\ ~finishSeen => finals = <<>>

\* What the final snapshot is to hold for the buffered fragments: one
\* function-call part for each fragment of type "function" whose arguments
\* parse, the others left out.
RECURSIVE ParsedCallParts(_)
ParsedCallParts(calls) ==
  IF calls = <<>> THEN <<>>
  ELSE LET call == calls[1]
           isFunction == Has(call, "type") /\ call.type = "function"
           parsed == JSONParse(IF isFunction /\ call.function.arguments # ""
                                 THEN call.function.arguments ELSE "{}")
       IN  (IF isFunction /\ parsed.ok
              THEN <<[functionCall |-> [name |-> call.function.name,
                                        args |-> parsed.value]]>>
              ELSE <<>>)
           \o ParsedCallParts(Tail(calls))

HasMalformed(calls) ==
  \E i \in 1..Len(calls) :
    /\ Has(calls[i], "type") /\ calls[i].type = "function"
    /\ calls[i].function.arguments # ""
    /\ ~JSONParse(calls[i].function.arguments).ok

\* C4: a chunk that brings only tool-call fragments yields no snapshot, and
\* the final snapshot holds, after the text part, one function-call part
\* for each buffered fragment whose arguments parse as JSON, in order of
\* arrival; a fragment whose arguments do not parse is left out and the
\* final snapshot is yielded all the same.
C4_FinalToolCalls ==
  Streaming =>
    /\ Len(SelectSeq(emitted, IsPartial)) = Len(deltas)
    /\ finishSeen =>
         /\ emitted # <<>>
         /\ IsFinal(emitted[Len(emitted)])
         /\ Candidate(emitted[Len(emitted)]).content.parts
              = TextParts(accumulatedContent) \o ParsedCallParts(toolCalls)

(***************************************************************************)
(* generateContent and generateContentStream: cancellation and failure     *)
(***************************************************************************)
Generating == op \in {"generateContent", "generateContentStream"}

\* C5: once the signal of the request is aborted the backend operation is
\* ended: the stream yields no snapshot after the abort, and the operation
\* ends with the cancellation, not with a result or another failure.
C5_AbortEndsOperation ==
  (Generating /\ aborted) =>
    /\ Len(emitted) = emittedAtAbort
    /\ pc = "done" =>
         /\ answer = [kind |-> "error", error |-> AbortError]
         /\ outcome.kind = "throw"

\* C6: a failure of the backend reaches the caller as one error whose
\* message is "OpenAI API error: " followed by the text of the original
\* error; the operation is over, generateContent has returned no response,
\* and the stream yields no snapshot afterwards.
C6_WrappedFailure ==
  /\ [](answer.kind = "error" =>
          /\ Generating
          /\ pc = "done"
          /\ outcome.kind = "throw"
          /\ outcome.message
               = "OpenAI API error: "
                   \o (IF answer.error.isError THEN answer.error.message
                       ELSE answer.error.value))
  /\ [][answer.kind = "error" => UNCHANGED <<outcome, emitted>>]_vars

\* A stream has failed after it had yielded a snapshot.
C6_Witness ==
  /\ Streaming
  /\ answer.kind = "error"
  /\ emitted # <<>>
  /\ outcome = Thrown("OpenAI API error: Connection error.")

\* The tool calls of the first choice of the completion answered.
AnsweredCalls ==
  LET message == answer.completion.choices[1].message
  IN  IF Has(message, "tool_calls") THEN message.tool_calls ELSE <<>>

\* C7: a tool call whose arguments do not parse does not abort the
\* response: generateContent returns a response that holds the text part
\* and a function-call part for every well-formed tool call.
C7_MalformedCallKeepsResponse ==
  (/\ op = "generateContent" /\ pc = "done"
   /\ answer.kind = "completion"
   /\ answer.completion.choices # <<>>
   /\ HasMalformed(AnsweredCalls)) =>
    /\ outcome.kind = "return"
    /\ Candidate(outcome.value).content.parts
         = TextParts(answer.completion.choices[1].message.content)
             \o ParsedCallParts(AnsweredCalls)

(***************************************************************************)
(* The messages sent, the response synthesized, the tokens counted         *)
(***************************************************************************)
\* The call to the backend has been made and the request is at hand.
CallMade ==
  /\ Generating
  /\ pc \in {"awaiting", "creating"}
  /\ backendCall.kind = "create"

\* The number of messages the content turns of the request convert to.
NumContentMessages ==
  Len(ConvertContentsToMessages(
        callRequest.contents,
        [i \in 1..NumIdsAll(callRequest.contents) |-> "call_0"]))

\* The text of the system instruction of the request: the string, or the
\* non-empty texts of the parts of the Content, one per line.
InstructionText ==
  LET si == callRequest.config.systemInstruction
      texts == IF Has(si, "parts")
                 THEN SelectSeq(si.parts,
                                LAMBDA part : Has(part, "text") /\ part.text # "")
                 ELSE <<>>
  IN  IF Has(si, "parts")
        THEN Join([i \in 1..Len(texts) |-> texts[i].text], "\n")
        ELSE si.string

\* C8 as stated: whenever the request has a system instruction, a string
\* (the empty string counted as none) or a Content of whatever parts, the
\* messages sent start with a system message put before those of the
\* content turns.
C8_SystemMessageFirst ==
  (/\ CallMade
   /\ Has(callRequest.config, "systemInstruction")
   /\ callRequest.config.systemInstruction # [string |-> ""]) =>
    /\ Len(backendCall.messages) = NumContentMessages + 1
    /\ backendCall.messages[1].role = "system"

\* C8, amended: when the system instruction has text (a non-empty string,
\* or a Content with a non-empty text part), generateContent and
\* generateContentStream send, before the messages of the content turns, a
\* system message holding that text; when it has none, or the request has
\* no system instruction, they send the messages of the content turns alone.
C8_SystemMessageFirstWhenText ==
  CallMade =>
    IF Has(callRequest.config, "systemInstruction") /\ InstructionText # ""
      THEN /\ Len(backendCall.messages) = NumContentMessages + 1
           /\ backendCall.messages[1]
                = [role |-> "system", content |-> InstructionText]
      ELSE Len(backendCall.messages) = NumContentMessages

\* A request whose first turn is a system turn, sent behind the message of
\* a system instruction given as a Content of two text parts.
C8_Witness ==
  /\ CallMade
  /\ Has(callRequest.config, "systemInstruction")
  /\ Len(callRequest.contents) = 2
  /\ callRequest.contents[1].role = "system"
  /\ backendCall.messages[1] = [role |-> "system", content |-> "one\ntwo"]
  /\ backendCall.messages[2].role = "system"

\* C9: for a completion with a choice, the synthesizer returns one
\* candidate made of the first choice: role "model", a text part if the
\* content is not empty, then a function-call part for each tool call in
\* order, the finish reason of the backend (undefined without one), index 0.
C9_OneCandidate ==
  (/\ op = "generateContent" /\ pc = "done"
   /\ answer.kind = "completion"
   /\ answer.completion.choices # <<>>) =>
    LET choice == answer.completion.choices[1]
    IN  /\ outcome.kind = "return"
        /\ Len(outcome.value.candidates) = 1
        /\ Candidate(outcome.value).content.role = "model"
        /\ LET parts == Candidate(outcome.value).content.parts
               texts == TextParts(choice.message.content)
           IN  /\ SubSeq(parts, 1, Len(texts)) = texts
               /\ Len(parts) = Len(texts) + Len(AnsweredCalls)
               /\ \A i \in 1..Len(AnsweredCalls) :
                    Has(parts[Len(texts) + i], "functionCall")
        /\ Candidate(outcome.value).finishReason
             = (IF choice.finish_reason \in {"", Null} THEN NULL
                ELSE choice.finish_reason)
        /\ Candidate(outcome.value).index = 0

\* The parts of the request counted, and the length of their texts.
CountedParts == FlatParts(callRequest.contents)
RECURSIVE TextLength(_)
TextLength(parts) ==
  IF parts = <<>> THEN 0
  ELSE (IF Has(parts[1], "text") THEN Len(parts[1].text) ELSE 0)
       + TextLength(Tail(parts))
IsCeilQuarter(tokens, length) == 4 * (tokens - 1) < length /\ length <= 4 * tokens

\* C10 as stated: countTokens returns ceil(L / 4), L the length of the
\* texts of the parts that have one, joined by single spaces; a part with
\* no text adds nothing.
C10_TextPartsOnly ==
  (op = "countTokens" /\ pc = "done") =>
    LET textual == SelectSeq(CountedParts, HasText)
        L == TextLength(textual) + (IF textual = <<>> THEN 0 ELSE Len(textual) - 1)
    IN  /\ outcome.kind = "return"
        /\ IsCeilQuarter(outcome.value.totalTokens, L)

\* C10, amended: countTokens returns ceil(L / 4), L the length of the
\* string that joins by single spaces one entry for each part of each turn,
\* in order: the text of the part, and the empty string for a part with no
\* text, which so adds no character of its own but still a separator.
C10_EveryPartJoined ==
  (op = "countTokens" /\ pc = "done") =>
    LET L == TextLength(CountedParts)
               + (IF CountedParts = <<>> THEN 0 ELSE Len(CountedParts) - 1)
    IN  /\ outcome.kind = "return"
        /\ IsCeilQuarter(outcome.value.totalTokens, L)

\* Tokens counted for a request with a part that has no text, where the
\* separators of such parts change the count.
C10_Witness ==
  /\ op = "countTokens" /\ pc = "done"
  /\ \E i \in 1..Len(CountedParts) : ~Has(CountedParts[i], "text")
  /\ TextLength(CountedParts) = 4
  /\ outcome.value.totalTokens = 2

(***************************************************************************)
(* The message converter                                                   *)
(***************************************************************************)
CallParts(content) == SelectSeq(content.parts, LAMBDA part : Has(part, "functionCall"))
ResponseParts(content) ==
  SelectSeq(content.parts, LAMBDA part : Has(part, "functionResponse"))
\* The role a turn's message is to carry.
ClaimedRole(role) ==
  CASE role = "model" -> "assistant"
    [] role \in {"user", "system", "assistant"} -> role
    [] OTHER -> "user"
\* The number of messages a turn is to yield.
ClaimedCount(content) ==
  IF CallParts(content) = <<>> /\ ResponseParts(content) = <<>> THEN 1
  ELSE (IF CallParts(content) # <<>> THEN 1 ELSE 0) + Len(ResponseParts(content))

\* The messages ms are those of the turn content.
TurnConverted(content, ms) ==
  LET calls == CallParts(content)
      responses == ResponseParts(content)
      k == Len(calls)
      first == IF k > 0 THEN 1 ELSE 0
      texts == SelectSeq(content.parts,
                         LAMBDA part : Has(part, "text") /\ part.text # "")
      body == Join([i \in 1..Len(texts) |-> texts[i].text], "\n")
  IN  /\ Len(ms) = ClaimedCount(content)
      /\ IF k = 0 /\ responses = <<>>
           THEN /\ ms[1].role = ClaimedRole(content.role)
                /\ ~Has(ms[1], "tool_calls")
           ELSE /\ k > 0 =>
                     /\ ms[1].role = "assistant"
                     /\ ms[1].content = (IF body = "" THEN Null ELSE body)
                     /\ Len(ms[1].tool_calls) = k
                     /\ \A i \in 1..k :
                          ms[1].tool_calls[i].function.name
                            = calls[i].functionCall.name
                /\ \A j \in 1..Len(responses) :
                     /\ ms[first + j].role = "tool"
                     /\ ms[first + j].content
                          = JSONStringify(responses[j].functionResponse.response)

\* The messages ms are those of the turns contents, turn after turn.
RECURSIVE TurnsConverted(_, _)
TurnsConverted(contents, ms) ==
  IF contents = <<>> THEN ms = <<>>
  ELSE LET n == ClaimedCount(contents[1])
       IN  /\ Len(ms) >= n
           /\ TurnConverted(contents[1], SubSeq(ms, 1, n))
           /\ TurnsConverted(Tail(contents), SubSeq(ms, n + 1, Len(ms)))

\* The messages sent for the content turns: those after the message of the
\* system instruction, when the first message is not of a turn.
ContentMessagesSent ==
  LET ms == backendCall.messages
      claimed == [i \in 1..Len(callRequest.contents) |->
                    ClaimedCount(callRequest.contents[i])]
      RECURSIVE Sum(_)
      Sum(ns) == IF ns = <<>> THEN 0 ELSE ns[1] + Sum(Tail(ns))
  IN  IF Len(ms) = Sum(claimed) + 1 THEN Tail(ms) ELSE ms

\* C11: the messages converted are those of each turn, in order: a turn with
\* neither function call nor function response gives one message with the
\* mapped role (model to assistant; user, system, assistant kept; any other
\* to user); a turn with k calls and m responses gives, when k > 0, one
\* assistant message with the k invocations in part order, its body the
\* text parts joined by newlines or the no-content marker, and then the m
\* tool-result messages in part order.
C11_TurnsConverted ==
  CallMade => TurnsConverted(callRequest.contents, ContentMessagesSent)

\* A turn of two calls and a response, then a turn of an unknown role.
C11_Witness ==
  /\ CallMade
  /\ Len(callRequest.contents) = 2
  /\ Len(CallParts(callRequest.contents[1])) = 2
  /\ Len(ResponseParts(callRequest.contents[1])) = 1
  /\ callRequest.contents[2].role = "function"
  /\ Len(backendCall.messages) = 3
  /\ Len(backendCall.messages[1].tool_calls) = 2
  /\ backendCall.messages[2].role = "tool"
  /\ backendCall.messages[3].role = "user"

\* The identifiers of the invocations in the messages before the i-th.
InvocationIdsBefore(ms, i) ==
  {ms[j].tool_calls[n].id :
     <<j, n>> \in {<<j, n>> \in (1..(i - 1)) \X (1..(2 * MaxTurns)) :
                     Has(ms[j], "tool_calls") /\ n <= Len(ms[j].tool_calls)}}

\* C12: a tool-result message carries the identifier of an invocation sent
\* earlier in the same messages, the one it answers, not an identifier made
\* up apart from every invocation.
C12_ResultCarriesInvocationId ==
  CallMade =>
    \A i \in 1..Len(backendCall.messages) :
      (/\ backendCall.messages[i].role = "tool"
       /\ InvocationIdsBefore(backendCall.messages, i) # {}) =>
        backendCall.messages[i].tool_call_id
          \in InvocationIdsBefore(backendCall.messages, i)

-----------------------------------------------------------------------------
(* Contents handed to the caller *)

\* C13: the content of the candidate of every response handed to the
\* caller, the response returned by generateContent and every snapshot of
\* generateContentStream, the final one included, has at least one part.
C13_PartsNeverEmpty ==
  /\ (/\ op = "generateContent" /\ pc = "done" /\ outcome.kind = "return") =>
       \A i \in 1..Len(outcome.value.candidates) :
         outcome.value.candidates[i].content.parts # <<>>
  /\ Streaming =>
       \A i \in 1..Len(emitted) : Candidate(emitted[i]).content.parts # <<>>

-----------------------------------------------------------------------------
(* Function calls of a stream *)

HasCallPart(response) ==
  \E n \in 1..Len(Candidate(response).content.parts) :
    Has(Candidate(response).content.parts[n], "functionCall")

\* The stream ended with no chunk carrying a finish reason.
EndedUnfinished ==
  /\ Streaming /\ pc = "done" /\ answer.kind = "stream" /\ ~finishSeen
  /\ pending = NoOutcome

\* C14: no snapshot of generateContentStream with finishReason unset has a
\* function-call part; and when the chunks end with none carrying a finish
\* reason, the generator returns normally, no final snapshot has been
\* yielded, and no snapshot delivered a function call, whatever tool-call
\* fragments were buffered.
C14_CallsOnlyInFinalSnapshot ==
  /\ Streaming =>
       \A i \in 1..Len(emitted) : IsPartial(emitted[i]) => ~HasCallPart(emitted[i])
  /\ EndedUnfinished =>
       /\ outcome = Returned(NULL)
       /\ \A i \in 1..Len(emitted) :
            IsPartial(emitted[i]) /\ ~HasCallPart(emitted[i])

C14_Witness ==
  /\ EndedUnfinished
  /\ outcome = Returned(NULL)
  /\ emitted # <<>>
  /\ \E n \in 1..Len(toolCalls) :
       /\ Has(toolCalls[n], "type")
       /\ toolCalls[n].type = "function"
       /\ toolCalls[n].function.name = "lookup"
====
